---------------------------- MODULE Spec2Model ----------------------------
(***************************************************************************)
(* Model of the iterative TCP quiz server (src/server.c): the accept loop, *)
(* the start gate, the selection of five question indices, the question    *)
(* loop and the score report, over a byte-stream connection whose peer may *)
(* send any line, or close, at any moment (Spec, LiveSpec); of the line    *)
(* framer read_line / send_message on a stream of its own (FramerSpec);    *)
(* and of the server run with the client driver of src/unnamed/part_000 as *)
(* its peer (SysSpec).                                                     *)
(***************************************************************************)
EXTENDS Integers, Sequences, FiniteSets

(* ------------------------------ bounds --------------------------------- *)

\* accepted connections per run of the server process
MaxSessions == 2
\* largest content pool (number of records in QuizQ/QuizA) that is explored
MaxPool == 5
\* largest value rand() returns in the model
MaxRand == 5
\* complete lines the peer may have in flight, unread by the server
MaxPending == 1
\* largest small max_len the framer's reader is run with
MaxLen == 3
\* longest small text the framer's writer sends
MaxText == 2
\* send_message calls and read_line calls made on the framer's stream
MaxMsgs == 2
MaxReads == 3

(* ------------------------- program constants --------------------------- *)

MAX_LINES == 256
\* the literal 5 of selected[5], "count < 5" and "i < 5"
QuizLen == 5
\* '\n'
NL == 10

(* ---------------------------- content pool ----------------------------- *)

\* the pool sizes explored: one record short of the five requested, up to MaxPool
PoolSizes == (QuizLen - 1)..MaxPool

\* QuizA[k], the canonical answer of record k, as bytes: "a0", "a1", ...
QuizA(k) == <<97, 48 + k>>

\* QuizQ[k], the question text of record k, as the message it is sent as
QuizQ(k) == [kind |-> "Q", arg |-> k]

(* ------------------------- lines the peer sends ------------------------ *)

TokY == <<89>>
TokQ == <<113>>
TokStart == <<115, 116, 97, 114, 116>>
Empty == <<>>
\* a proper prefix of every canonical answer
Prefix == <<97>>

\* what the peer answers the start gate with
GateLines == {TokY, TokQ, TokStart, Empty}

\* what the peer answers a question with, besides its canonical answer
AnswerLines == {Prefix, Empty}

\* the bytes of a line cut off before its newline
Fragment == <<97>>

-----------------------------------------------------------------------------
VARIABLES
    pc,             \* where the server is in main's loop
    sessions,       \* connections accepted so far
    num_questions,  \* sizeof(QuizQ) / sizeof(QuizQ[0])
    inbuf,          \* bytes sent by the peer, not yet received by the server
    peerClosed,     \* the peer has closed its end
    selected,       \* selected[0..count-1]; count is Len(selected)
    i,              \* the question loop's cursor
    score,          \* the running score
    log,            \* the send() calls made on the current connection
    closes,         \* times the current connection's descriptor was released
    lateIO,         \* a send or recv was made on it after its release
    gate,           \* what read_line returned at the start gate
    answers,        \* what read_line returned in the question loop, in order
    \* the client driver (src/unnamed/part_000), when one is run
    cpc,            \* where the client is in its main
    ci,             \* the round loop's cursor
    cpos,           \* bytes of the server's output the client has received
    shown,          \* the client's reads in order: as what, and what came
    csent,          \* the lines the client has sent, and after how many reads
    ccloses,        \* times the client's descriptor was released
    \* the line framer on its own: one writer, one reader, one stream
    fmax,           \* the reader's max_len
    wire,           \* bytes written and not yet read
    weof,           \* the writer has closed
    fmsgs,          \* the send_message calls made, with what send() returned
    freads          \* the read_line calls made, with what they found and left

svars == <<pc, sessions, num_questions, inbuf, peerClosed, selected, i, score,
           log, closes, lateIO, gate, answers>>
cvars == <<cpc, ci, cpos, shown, csent, ccloses>>
fvars == <<fmax, wire, weof, fmsgs, freads>>

vars == <<svars, cvars, fvars>>

\* the marker of a read that has not happened
NoRead == [ret |-> -2, buffer |-> <<>>, graded |-> FALSE]

-----------------------------------------------------------------------------
(* ------------------------------ read_line ------------------------------ *)

RECURSIVE read_line_loop_keep_nl(_, _, _, _)
\* a loop that stores the newline before it returns
read_line_loop_keep_nl(stream, eof, buffer, max_len) ==
    IF ~(Len(buffer) < max_len - 1)
    THEN [blocked |-> FALSE, ret |-> Len(buffer), buffer |-> buffer, rest |-> stream]
    ELSE IF stream = <<>>
    THEN IF eof
         THEN [blocked |-> FALSE, ret |-> -1, buffer |-> buffer, rest |-> stream]
         ELSE [blocked |-> TRUE, ret |-> 0, buffer |-> buffer, rest |-> stream]
    ELSE IF Head(stream) = NL
    THEN [blocked |-> FALSE, ret |-> Len(buffer) + 1, buffer |-> Append(buffer, NL),
          rest |-> Tail(stream)]
    ELSE read_line_loop_keep_nl(Tail(stream), eof, Append(buffer, Head(stream)), max_len)

RECURSIVE read_line_loop_to_max(_, _, _, _)
\* a loop that runs while i < max_len
read_line_loop_to_max(stream, eof, buffer, max_len) ==
    IF ~(Len(buffer) < max_len)
    THEN [blocked |-> FALSE, ret |-> Len(buffer), buffer |-> buffer, rest |-> stream]
    ELSE IF stream = <<>>
    THEN IF eof
         THEN [blocked |-> FALSE, ret |-> -1, buffer |-> buffer, rest |-> stream]
         ELSE [blocked |-> TRUE, ret |-> 0, buffer |-> buffer, rest |-> stream]
    ELSE IF Head(stream) = NL
    THEN [blocked |-> FALSE, ret |-> Len(buffer), buffer |-> buffer, rest |-> Tail(stream)]
    ELSE read_line_loop_to_max(Tail(stream), eof, Append(buffer, Head(stream)), max_len)

RECURSIVE read_line_loop_drop(_, _, _, _)
\* a loop that tests the bound after recv: the byte that finds the buffer
\* full is received and dropped
read_line_loop_drop(stream, eof, buffer, max_len) ==
    IF stream = <<>>
    THEN IF eof
         THEN [blocked |-> FALSE, ret |-> -1, buffer |-> buffer, rest |-> stream]
         ELSE [blocked |-> TRUE, ret |-> 0, buffer |-> buffer, rest |-> stream]
    ELSE IF Head(stream) = NL
    THEN [blocked |-> FALSE, ret |-> Len(buffer), buffer |-> buffer, rest |-> Tail(stream)]
    ELSE IF ~(Len(buffer) < max_len - 1)
    THEN [blocked |-> FALSE, ret |-> Len(buffer), buffer |-> buffer, rest |-> Tail(stream)]
    ELSE read_line_loop_drop(Tail(stream), eof, Append(buffer, Head(stream)), max_len)

RECURSIVE read_line_loop(_, _, _, _)
\* the while loop of read_line: buffer holds buffer[0..i-1], i is Len(buffer).
\* recv() on an empty stream fails (n <= 0) when the peer has closed and
\* blocks otherwise.
read_line_loop(stream, eof, buffer, max_len) ==
    IF ~(Len(buffer) < max_len - 1)
    THEN [blocked |-> FALSE, ret |-> Len(buffer), buffer |-> buffer, rest |-> stream]
    ELSE IF stream = <<>>
    THEN IF eof
         THEN [blocked |-> FALSE, ret |-> -1, buffer |-> buffer, rest |-> stream]
         ELSE [blocked |-> TRUE, ret |-> 0, buffer |-> buffer, rest |-> stream]
    ELSE IF Head(stream) = NL
    THEN [blocked |-> FALSE, ret |-> Len(buffer), buffer |-> buffer, rest |-> Tail(stream)]
    ELSE read_line_loop(Tail(stream), eof, Append(buffer, Head(stream)), max_len)

read_line(stream, eof, max_len) == read_line_loop(stream, eof, <<>>, max_len)

\* what is recorded of a read: the return value, the text, and whether the
\* caller went on to compare the text
ReadOf(r, graded) ==
    [ret |-> r.ret, buffer |-> IF r.ret >= 0 THEN r.buffer ELSE <<>>, graded |-> graded]

RECURSIVE CStr(_)
\* the C string held by a buffer: the bytes before the first NUL
CStr(b) == IF b = <<>> \/ Head(b) = 0 THEN <<>> ELSE <<Head(b)>> \o CStr(Tail(b))

\* strcmp(a, b) == 0
strcmp0(a, b) == CStr(a) = CStr(b)

(* -------------------------------- send --------------------------------- *)

NLItem == [kind |-> "NL", arg |-> 0]
PreambleItem == [kind |-> "PREAMBLE", arg |-> 0]
RightItem == [kind |-> "RIGHT", arg |-> 0]
WrongItem(k) == [kind |-> "WRONG", arg |-> k]
ScoreItem(n) == [kind |-> "SCORE", arg |-> n]

\* One send() call, made without MSG_NOSIGNAL by a process that leaves
\* SIGPIPE at its default disposition.  st is [log, killed].  While the peer
\* is open the bytes are queued.  Once the peer has closed, the call either
\* still queues them (no reset has come back yet) or raises SIGPIPE, which
\* terminates the process.  A terminated process makes no further call.
Send(st, closed, item) ==
    IF st.killed THEN {st}
    ELSE IF ~closed THEN {[st EXCEPT !.log = Append(@, item)]}
    ELSE {[st EXCEPT !.log = Append(@, item)], [st EXCEPT !.killed = TRUE]}

\* send_message: the text, then the newline, as two send() calls
send_message(st, closed, item) ==
    UNION {Send(s1, closed, NLItem) : s1 \in Send(st, closed, item)}

St0 == [log |-> log, killed |-> FALSE]

(* ----------------------------- start gate ------------------------------ *)

\* a gate without the test that rejects what is not "Y"
GateOutcomeNoReject(r) ==
    IF r.ret <= 0 THEN "fail"
    ELSE IF strcmp0(r.buffer, TokQ) THEN "quit"
    ELSE "start"

\* the three tests made on the line read at the start gate
GateOutcome(r) ==
    IF r.ret <= 0 THEN "fail"
    ELSE IF strcmp0(r.buffer, TokQ) THEN "quit"
    ELSE IF ~strcmp0(r.buffer, TokY) THEN "reject"
    ELSE "start"

\* a gate that forgets the close on a rejected token
GateClosesUnlessRejected(o) == o \in {"fail", "quit"}

\* close(client_sock) is called on every outcome but "start"
GateCloses(o) == o # "start"

\* "continue" returns to accept; otherwise control falls into the selection
GateNext(o) == IF o = "start" THEN "select" ELSE "accept"

(* ------------------------- question selection -------------------------- *)

\* int idx = rand() % num_questions
DrawIndex(r, n) == r % n

\* a scan that looks at the last stored index only
NotFoundLastOnly(sel, idx) == sel = <<>> \/ sel[Len(sel)] # idx

\* the scan of selected[0..count-1]: idx is taken when it is not found
NotFound(sel, idx) == ~(\E j \in 1..Len(sel) : sel[j] = idx)

(* ---------------------------- question loop ---------------------------- *)

\* the test that breaks out of the question loop
AbortsQuestion(r) == r.ret <= 0

\* a comparison with the answer at the loop cursor, not at the selected index
GradeByCursor(answer, q_idx) == strcmp0(answer, QuizA(i))

\* strcmp(answer, QuizA[q_idx]) == 0
Grade(answer, q_idx) == strcmp0(answer, QuizA(q_idx))

\* a score counted twice for a right answer
NewScoreTwice(s, right) == IF right THEN s + 2 ELSE s

\* score++ on a right answer
NewScore(s, right) == IF right THEN s + 1 ELSE s

\* a feedback that says "Right Answer." whatever the comparison found
FeedbackAlwaysRight(right, q_idx) == RightItem

\* the feedback message
Feedback(right, q_idx) == IF right THEN RightItem ELSE WrongItem(q_idx)

\* the record question number k (0-based) is taken from
QIdx(sel, k) == sel[k + 1]

(* ------------------- the locals of one session's quiz ------------------- *)

\* int selected[5]; int count = 0: no index is selected yet
StartSelected(prev) == <<>>

\* a score that is declared without its initialiser
StartScoreKeep(prev) == prev

\* int score = 0
StartScore(prev) == 0

\* for (int i = 0; ...)
StartCursor(prev) == 0

-----------------------------------------------------------------------------
ServerInit ==
    /\ pc = "accept"
    /\ sessions = 0
    /\ num_questions \in PoolSizes
    /\ inbuf = <<>>
    /\ peerClosed = FALSE
    /\ selected = <<>>
    /\ i = 0
    /\ score = 0
    /\ log = <<>>
    /\ closes = 0
    /\ lateIO = FALSE
    /\ gate = NoRead
    /\ answers = <<>>

\* no client driver is run: the peer is whatever PeerSend and PeerClose do
ClientOff ==
    /\ cpc = "none"
    /\ ci = 0
    /\ cpos = 0
    /\ shown = <<>>
    /\ csent = <<>>
    /\ ccloses = 0

\* the framer's own stream is not used
FramerOff ==
    /\ fmax = MAX_LINES
    /\ wire = <<>>
    /\ weof = FALSE
    /\ fmsgs = <<>>
    /\ freads = <<>>

Init == ServerInit /\ ClientOff /\ FramerOff

\* the connection is live: accepted and the process still runs
InSession == pc \notin {"accept", "killed"}

\* SIGPIPE: the process is terminated, which releases its descriptors
Killed ==
    /\ pc' = "killed"
    /\ closes' = closes + 1
    /\ UNCHANGED <<selected, i, score>>

\* close(client_sock) and back to accept; the locals of the loop body go out
\* of scope and nothing is stored to them: what they held stays in memory
EndOfBody ==
    /\ pc' = "accept"
    /\ closes' = closes + 1
    /\ UNCHANGED <<selected, i, score>>

\* accept() returns a new connection; the preamble is sent with one send()
AcceptBody ==
    /\ pc = "accept"
    /\ sessions < MaxSessions
    /\ sessions' = sessions + 1
    /\ inbuf' = <<>>
    /\ peerClosed' = FALSE
    /\ closes' = 0
    /\ lateIO' = FALSE
    /\ gate' = NoRead
    /\ answers' = <<>>
    /\ \E st \in Send([log |-> <<>>, killed |-> FALSE], FALSE, PreambleItem) :
          log' = st.log
    /\ pc' = "gate"
    /\ UNCHANGED <<num_questions, selected, i, score>>
    /\ UNCHANGED fvars

\* the connection accepted is one of the arbitrary peer
Accept == AcceptBody /\ UNCHANGED cvars

\* read_line at the start gate and the tests on the response
ReadStart ==
    /\ pc = "gate"
    /\ LET r == read_line(inbuf, peerClosed, MAX_LINES)
           o == GateOutcome(r)
       IN  /\ ~r.blocked
           /\ inbuf' = r.rest
           /\ gate' = ReadOf(r, r.ret > 0)
           /\ lateIO' = (lateIO \/ closes > 0)
           /\ closes' = closes + (IF GateCloses(o) THEN 1 ELSE 0)
           /\ pc' = GateNext(o)
           /\ selected' = IF o = "start" THEN StartSelected(selected) ELSE selected
    /\ UNCHANGED <<sessions, num_questions, peerClosed, i, score, log, answers>>
    /\ UNCHANGED <<cvars, fvars>>

\* one iteration of "while (count < 5)"; the iteration that stores the fifth
\* index leaves the loop and enters the question loop with score = 0, i = 0
Draw ==
    /\ pc = "select"
    /\ Len(selected) < QuizLen
    /\ \E r \in 0..MaxRand :
         LET idx == DrawIndex(r, num_questions) IN
         IF NotFound(selected, idx)
         THEN /\ selected' = Append(selected, idx)
              /\ IF Len(selected) + 1 = QuizLen
                 THEN /\ pc' = "ask"
                      /\ score' = StartScore(score)
                      /\ i' = StartCursor(i)
                 ELSE UNCHANGED <<pc, score, i>>
         ELSE UNCHANGED <<pc, selected, score, i>>
    /\ UNCHANGED <<sessions, num_questions, inbuf, peerClosed, log, closes,
                   lateIO, gate, answers>>
    /\ UNCHANGED <<cvars, fvars>>

\* send_message(client_sock, QuizQ[q_idx])
AskQuestion ==
    /\ pc = "ask"
    /\ i < QuizLen
    /\ lateIO' = (lateIO \/ closes > 0)
    /\ \E st \in send_message(St0, peerClosed, QuizQ(QIdx(selected, i))) :
         /\ log' = st.log
         /\ IF st.killed
            THEN Killed
            ELSE pc' = "answer" /\ UNCHANGED <<closes, selected, i, score>>
    /\ UNCHANGED <<sessions, num_questions, inbuf, peerClosed, gate, answers>>
    /\ UNCHANGED <<cvars, fvars>>

\* read_line of the answer, its evaluation and the feedback message
ReadAnswer ==
    /\ pc = "answer"
    /\ lateIO' = (lateIO \/ closes > 0)
    /\ LET r == read_line(inbuf, peerClosed, MAX_LINES)
           q_idx == QIdx(selected, i)
           right == Grade(r.buffer, q_idx)
       IN  /\ ~r.blocked
           /\ inbuf' = r.rest
           /\ answers' = Append(answers, ReadOf(r, ~AbortsQuestion(r)))
           /\ IF AbortsQuestion(r)
              THEN /\ pc' = "report"
                   /\ UNCHANGED <<log, closes, selected, i, score>>
              ELSE \E st \in send_message(St0, peerClosed, Feedback(right, q_idx)) :
                   /\ log' = st.log
                   /\ IF st.killed
                      THEN /\ pc' = "killed"
                           /\ closes' = closes + 1
                           /\ score' = NewScore(score, right)
                           /\ UNCHANGED <<selected, i>>
                      ELSE /\ score' = NewScore(score, right)
                           /\ i' = i + 1
                           /\ pc' = IF i + 1 < QuizLen THEN "ask" ELSE "report"
                           /\ UNCHANGED <<closes, selected>>
    /\ UNCHANGED <<sessions, num_questions, peerClosed, gate>>
    /\ UNCHANGED <<cvars, fvars>>

\* the score report, then close(client_sock)
ReportScore ==
    /\ pc = "report"
    /\ lateIO' = (lateIO \/ closes > 0)
    /\ \E st \in send_message(St0, peerClosed, ScoreItem(score)) :
         /\ log' = st.log
         /\ IF st.killed THEN Killed ELSE EndOfBody
    /\ UNCHANGED <<sessions, num_questions, inbuf, peerClosed, gate, answers>>
    /\ UNCHANGED <<cvars, fvars>>

(* ------------------------------ the peer ------------------------------- *)

RECURSIVE Pending(_)
\* complete lines in a stream
Pending(s) ==
    IF s = <<>> THEN 0 ELSE (IF Head(s) = NL THEN 1 ELSE 0) + Pending(Tail(s))

\* the lines the peer may send now; to a question that is posed, with nothing
\* else in flight, it can also send that question's canonical answer
LinesNow ==
    IF pc = "gate" THEN GateLines
    ELSE AnswerLines \cup
         (IF pc = "answer" /\ inbuf = <<>> THEN {QuizA(QIdx(selected, i))} ELSE {})

\* the peer sends one line
PeerSend ==
    /\ InSession
    /\ ~peerClosed
    /\ Pending(inbuf) < MaxPending
    /\ \E line \in LinesNow : inbuf' = inbuf \o line \o <<NL>>
    /\ UNCHANGED <<pc, sessions, num_questions, peerClosed, selected, i, score,
                   log, closes, lateIO, gate, answers>>
    /\ UNCHANGED <<cvars, fvars>>

\* the peer closes its end, possibly in the middle of a line
PeerClose ==
    /\ InSession
    /\ ~peerClosed
    /\ peerClosed' = TRUE
    /\ \E frag \in {Fragment, <<>>} : inbuf' = inbuf \o frag
    /\ UNCHANGED <<pc, sessions, num_questions, selected, i, score,
                   log, closes, lateIO, gate, answers>>
    /\ UNCHANGED <<cvars, fvars>>

Next ==
    \/ Accept
    \/ ReadStart
    \/ Draw
    \/ AskQuestion
    \/ ReadAnswer
    \/ ReportScore
    \/ PeerSend
    \/ PeerClose

Spec == Init /\ [][Next]_vars

(* ------------------------------ progress ------------------------------- *)

\* the server is in recv() with no byte to return and the peer still open
BlockedInRead ==
    /\ pc \in {"gate", "answer"}
    /\ read_line(inbuf, peerClosed, MAX_LINES).blocked

\* at a blocking read the peer sends a line or disconnects
PeerActs == BlockedInRead /\ (PeerSend \/ PeerClose)

\* a draw that returns an index not selected yet
DrawsNew == Draw /\ selected' # selected

\* a step of the server's single thread
ServerStep == ReadStart \/ Draw \/ AskQuestion \/ ReadAnswer \/ ReportScore

\* The server's thread keeps running while it can; rand() keeps returning
\* every index; a peer the server waits for sends or disconnects.  The pool
\* holds at least the 5 questions a session asks.
LiveInit == Init /\ num_questions >= QuizLen

LiveSpec ==
    /\ LiveInit
    /\ [][Next]_vars
    /\ WF_vars(ServerStep)
    /\ SF_vars(DrawsNew)
    /\ WF_vars(PeerActs)

TypeOK ==
    /\ pc \in {"accept", "gate", "select", "ask", "answer", "report", "killed"}
    /\ sessions \in 0..MaxSessions
    /\ num_questions \in PoolSizes
    /\ peerClosed \in BOOLEAN
    /\ i \in 0..QuizLen
    /\ score \in 0..QuizLen
    /\ Len(selected) <= QuizLen

-----------------------------------------------------------------------------
(* ------------------------ the line framer alone ------------------------ *)
(* send_message and read_line on one stream: a writer that sends up to     *)
(* MaxMsgs texts and may close, a reader that calls read_line with max_len *)
(* fmax.  read_line treats max_len as a parameter, so the small values of   *)
(* fmax stand for the MAX_LINES the server and the client pass.            *)

\* the values of max_len
MaxLens == 2..MaxLen

\* the texts over 'a', 'b' of a given length
TextsOfLen(n) == [1..n -> {97, 98}]

\* the texts the writer sends: shorter than, as long as and longer than the
\* max_len - 1 bytes that fit the reader's buffer
FTexts == UNION {TextsOfLen(n) : n \in 0..MaxText}

\* what one send() of the bytes may return: -1, the full count, or, for more
\* than one byte, a short count
SendRets(bytes) ==
    {-1, Len(bytes)} \cup (IF Len(bytes) > 1 THEN {Len(bytes) - 1} ELSE {})

\* the bytes a send() that returned n put on the stream
Sent(bytes, n) == IF n <= 0 THEN <<>> ELSE SubSeq(bytes, 1, n)

\* what send_message hands back to its caller: it is declared void and
\* drops both return values of send()
send_message_returns(n1, n2) == "void"

FramerInit ==
    /\ fmax \in MaxLens
    /\ wire = <<>>
    /\ weof = FALSE
    /\ fmsgs = <<>>
    /\ freads = <<>>

\* send_message(sock, text): send(text), then send("\n"), whatever the first
\* returned
FSendMessage ==
    /\ ~weof
    /\ Len(fmsgs) < MaxMsgs
    /\ \E text \in FTexts :
         \E n1 \in SendRets(text), n2 \in SendRets(<<NL>>) :
            /\ wire' = wire \o Sent(text, n1) \o Sent(<<NL>>, n2)
            /\ fmsgs' = Append(fmsgs, [text |-> text, n1 |-> n1, n2 |-> n2,
                                       put |-> Sent(text, n1) \o Sent(<<NL>>, n2),
                                       returned |-> send_message_returns(n1, n2)])
    /\ UNCHANGED <<fmax, weof, freads>>
    /\ UNCHANGED <<svars, cvars>>

\* read_line(sock, buffer, fmax), once it can return
FReadLine ==
    /\ Len(freads) < MaxReads
    /\ LET r == read_line(wire, weof, fmax)
       IN  /\ ~r.blocked
           /\ wire' = r.rest
           /\ freads' = Append(freads, [pre |-> wire, eof |-> weof, ret |-> r.ret,
                                         buffer |-> r.buffer, rest |-> r.rest])
    /\ UNCHANGED <<fmax, weof, fmsgs>>
    /\ UNCHANGED <<svars, cvars>>

\* the writer closes its end
FClose ==
    /\ ~weof
    /\ weof' = TRUE
    /\ UNCHANGED <<fmax, wire, fmsgs, freads>>
    /\ UNCHANGED <<svars, cvars>>

FramerNext ==
    \/ FSendMessage
    \/ FReadLine
    \/ FClose

\* the server and the client are not run
FramerStart == ServerInit /\ num_questions = QuizLen /\ ClientOff /\ FramerInit

FramerSpec == FramerStart /\ [][FramerNext]_vars

-----------------------------------------------------------------------------
(* ---------------- the client driver run against the server -------------- *)
(* src/unnamed/part_000: one client process per accepted connection.  What  *)
(* the client sends goes to inbuf, what it receives is the bytes of log     *)
(* from cpos on; closing its socket sets peerClosed.                        *)

\* the six lines of the preamble; each line is kept as one byte and its newline
PreambleBytes == <<80, NL, 80, NL, 80, NL, 80, NL, 80, NL, 80, NL>>

\* the bytes of the texts the server sends
Text(item) ==
    CASE item.kind = "PREAMBLE" -> PreambleBytes
      [] item.kind = "NL"       -> <<NL>>
      [] item.kind = "Q"        -> <<81, 48 + item.arg>>
      [] item.kind = "RIGHT"    -> <<82>>
      [] item.kind = "WRONG"    -> <<87, 48 + item.arg>>
      [] item.kind = "SCORE"    -> <<83, 48 + item.arg>>

RECURSIVE Bytes(_)
\* the byte stream made by a sequence of send() calls
Bytes(l) == IF l = <<>> THEN <<>> ELSE Text(Head(l)) \o Bytes(Tail(l))

\* the server's end of the connection is closed: close(), or process exit
ServerClosed == closes > 0

\* what the client has not received yet
CStream == SubSeq(Bytes(log), cpos + 1, Len(Bytes(log)))

\* the client's read_line on its socket
CRead == read_line(CStream, ServerClosed, MAX_LINES)

\* the position in the server's output after a read that left rest
PosAfter(rest) == Len(Bytes(log)) - Len(rest)

\* a round loop that goes on after a failed recv
CAbortsOnEmptyOnly(r) == r.ret = 0

\* the test that leaves the round loop, on the question and on the feedback
CAborts(r) == r.ret <= 0

\* one read of the client: the role the driver gives the line, and the line
CReadOf(role, r) ==
    [role |-> role, ret |-> r.ret, text |-> IF r.ret >= 0 THEN r.buffer ELSE <<>>]

\* the client's send_message on a connection: queued while the server's end
\* is open; after it closed the bytes are dropped, or SIGPIPE ends the client
CSendOutcomes == IF ServerClosed THEN {"dropped", "killed"} ELSE {"queued"}

\* what the operator may type at "A: ": the answer lines, and the canonical
\* answer of the question on display
OperatorAnswers ==
    AnswerLines \cup
    (IF shown # <<>> /\ Len(shown[Len(shown)].text) = 2
        /\ shown[Len(shown)].text[1] = 81
     THEN {QuizA(shown[Len(shown)].text[2] - 48)} ELSE {})

\* the previous client process, if any, has ended
ClientGone == cpc \in {"none", "done", "killed"}

\* close(sock) and the end of the process
CClose ==
    /\ cpc' = "done"
    /\ ccloses' = ccloses + 1
    /\ peerClosed' = TRUE

\* the client process is terminated by SIGPIPE: its descriptor is released
CKilled ==
    /\ cpc' = "killed"
    /\ ccloses' = ccloses + 1
    /\ peerClosed' = TRUE

\* the server accepts the connection of a new client process
SysAccept ==
    /\ ClientGone
    /\ AcceptBody
    /\ cpc' = "preamble"
    /\ ci' = 0
    /\ cpos' = 0
    /\ shown' = <<>>
    /\ csent' = <<>>
    /\ ccloses' = 0

\* recv(sock, buffer, 1023): returns what has arrived, one byte or more
CRecvPreamble ==
    /\ cpc = "preamble"
    /\ CStream # <<>> \/ ServerClosed
    /\ IF CStream # <<>>
       THEN /\ \E n \in 1..Len(CStream) : cpos' = cpos + n
            /\ cpc' = "respond"
            /\ UNCHANGED <<ccloses, peerClosed>>
       ELSE CClose /\ UNCHANGED cpos
    /\ UNCHANGED <<ci, shown, csent, inbuf>>
    /\ UNCHANGED <<pc, sessions, num_questions, selected, i, score, log,
                   closes, lateIO, gate, answers>>
    /\ UNCHANGED fvars

\* fgets of the response, send_message, and the exit on "q"
CRespond ==
    /\ cpc = "respond"
    /\ \/ CClose /\ UNCHANGED <<csent, inbuf, ci>>
       \/ \E response \in GateLines, out \in CSendOutcomes :
            IF out = "killed"
            THEN CKilled /\ UNCHANGED <<csent, inbuf, ci>>
            ELSE /\ csent' = Append(csent, [text |-> response, seen |-> Len(shown)])
                 /\ inbuf' = IF out = "queued" THEN inbuf \o response \o <<NL>>
                              ELSE inbuf
                 /\ IF strcmp0(response, TokQ)
                    THEN CClose /\ UNCHANGED ci
                    ELSE /\ cpc' = "question"
                         /\ ci' = 0
                         /\ UNCHANGED <<ccloses, peerClosed>>
    /\ UNCHANGED <<cpos, shown>>
    /\ UNCHANGED <<pc, sessions, num_questions, selected, i, score, log,
                   closes, lateIO, gate, answers>>
    /\ UNCHANGED fvars

\* read_line of the question and its display
CReadQuestion ==
    /\ cpc = "question"
    /\ ~CRead.blocked
    /\ cpos' = PosAfter(CRead.rest)
    /\ shown' = Append(shown, CReadOf("Q", CRead))
    /\ cpc' = IF CAborts(CRead) THEN "score" ELSE "prompt"
    /\ UNCHANGED <<ci, csent, ccloses>>
    /\ UNCHANGED svars
    /\ UNCHANGED fvars

\* fgets of the answer and send_message
CAnswer ==
    /\ cpc = "prompt"
    /\ \/ cpc' = "score" /\ UNCHANGED <<csent, inbuf, ccloses, peerClosed>>
       \/ \E answer \in OperatorAnswers, out \in CSendOutcomes :
            IF out = "killed"
            THEN CKilled /\ UNCHANGED <<csent, inbuf>>
            ELSE /\ csent' = Append(csent, [text |-> answer, seen |-> Len(shown)])
                 /\ inbuf' = IF out = "queued" THEN inbuf \o answer \o <<NL>>
                              ELSE inbuf
                 /\ cpc' = "feedback"
                 /\ UNCHANGED <<ccloses, peerClosed>>
    /\ UNCHANGED <<ci, cpos, shown>>
    /\ UNCHANGED <<pc, sessions, num_questions, selected, i, score, log,
                   closes, lateIO, gate, answers>>
    /\ UNCHANGED fvars

\* read_line of the feedback, its display, and the loop's i++
CReadFeedback ==
    /\ cpc = "feedback"
    /\ ~CRead.blocked
    /\ cpos' = PosAfter(CRead.rest)
    /\ shown' = Append(shown, CReadOf("F", CRead))
    /\ IF CAborts(CRead)
       THEN cpc' = "score" /\ UNCHANGED ci
       ELSE /\ ci' = ci + 1
            /\ cpc' = IF ci + 1 < QuizLen THEN "question" ELSE "score"
    /\ UNCHANGED <<csent, ccloses>>
    /\ UNCHANGED svars
    /\ UNCHANGED fvars

\* read_line of the score line, then close(sock)
CReadScore ==
    /\ cpc = "score"
    /\ ~CRead.blocked
    /\ cpos' = PosAfter(CRead.rest)
    /\ shown' = Append(shown, CReadOf("S", CRead))
    /\ CClose
    /\ UNCHANGED <<ci, csent, inbuf>>
    /\ UNCHANGED <<pc, sessions, num_questions, selected, i, score, log,
                   closes, lateIO, gate, answers>>
    /\ UNCHANGED fvars

\* the draw loop in a run where rand() returns 0, 1, 2, ... in turn: which
\* records are selected changes the texts of a session, not their order
SysDraw == Draw /\ selected' = Append(selected, Len(selected))

SysNext ==
    \/ SysAccept
    \/ ReadStart
    \/ SysDraw
    \/ AskQuestion
    \/ ReadAnswer
    \/ ReportScore
    \/ CRecvPreamble
    \/ CRespond
    \/ CReadQuestion
    \/ CAnswer
    \/ CReadFeedback
    \/ CReadScore

\* the server with a pool of exactly the five records a quiz takes, and the
\* client driver as its peer
SysInit == Init /\ num_questions = QuizLen

SysSpec == SysInit /\ [][SysNext]_vars

SysTypeOK ==
    /\ cpc \in {"none", "preamble", "respond", "question", "prompt", "feedback",
                 "score", "done", "killed"}
    /\ ci \in 0..QuizLen
    /\ cpos \in 0..Len(Bytes(log))
    /\ ccloses \in 0..1

-----------------------------------------------------------------------------
(* --------------------- what a session has done so far ------------------ *)

\* the send() calls of one kind, in order
SendsOf(kinds) == SelectSeq(log, LAMBDA x : x.kind \in kinds)

\* the positions of the log where a message of the kind is complete:
\* its text is followed by its newline
CompleteAt(kind) ==
    {j \in 1..Len(log) : log[j].kind = kind /\ j < Len(log) /\ log[j + 1].kind = "NL"}

Questions == SendsOf({"Q"})
Feedbacks == SendsOf({"RIGHT", "WRONG"})
Reports == SendsOf({"SCORE"})

\* the session read the start token
Started == gate.ret > 0 /\ gate.buffer = TokY

\* the session is over: the server is back at accept, or was terminated
SessionOver == sessions > 0 /\ ~InSession

\* answers whose recv failed, and answer lines that were received
FailedReads == {k \in 1..Len(answers) : answers[k].ret < 0}
ReceivedLines == {k \in 1..Len(answers) : answers[k].ret >= 0}

\* answers that went through the comparison with the canonical answer
Evaluated == Cardinality({k \in 1..Len(answers) : answers[k].graded})

-----------------------------------------------------------------------------
\* C1: every accepted connection is released exactly once, on every way out
\* of its session, never while the session still runs, and no send or recv
\* is made on it afterwards.
C1_ClosedExactlyOnce ==
    /\ closes <= 1
    /\ ~lateIO
    /\ (InSession => closes = 0)
    /\ (SessionOver => closes = 1)

\* a session that left the question loop on a failed read is back at accept
C1_Witness ==
    /\ pc = "accept"
    /\ closes = 1
    /\ Started
    /\ FailedReads # {}

\* C2: a session that read "Y" sends exactly 5 questions unless a read
\* fails earlier; a failed read of the answer to question k-1 leaves exactly
\* k questions sent.
C2_FiveQuestionsUnlessReadFails ==
    /\ Len(Questions) <= QuizLen
    /\ \A k \in FailedReads : Len(Questions) = k
    /\ (Started /\ pc \in {"report", "accept"} /\ FailedReads = {}
          => Len(Questions) = QuizLen)

\* the score of the session exists: its declaration has been reached
ScoreInScope == pc \in {"ask", "answer", "report", "killed"}

\* C3: the running score is within 0..5 and never above the number of
\* answers evaluated so far, and so is every score put in a score report.
C3_ScoreBounded ==
    /\ ScoreInScope => (score \in 0..QuizLen /\ score <= Evaluated)
    /\ \A j \in 1..Len(Reports) :
          Reports[j].arg \in 0..QuizLen /\ Reports[j].arg <= Evaluated

\* a report of 2 out of 3 evaluated answers
C3_Witness ==
    /\ Len(Reports) = 1
    /\ Reports[1].arg = 2
    /\ Evaluated = 3

\* C4: in the question loop a question is aborted only when the read fails;
\* every answer line that is received, the empty line included, gets exactly
\* one feedback, which is "Right Answer." exactly when the line equals the
\* canonical answer of the question just sent.
C4_EveryReceivedLineGraded ==
    pc # "killed" =>
        /\ Len(Feedbacks) = Cardinality(ReceivedLines)
        /\ \A k \in 1..Len(Feedbacks) :
              (Feedbacks[k].kind = "RIGHT") <=>
                  (answers[k].buffer = QuizA(Questions[k].arg))

\* C5: after a failed read of an answer no further question is sent, and the
\* session ends with exactly one score report, carrying the number of right
\* answers given before the failure, and with the connection closed.
C5_ReportAfterFailedRead ==
    \A k \in FailedReads :
        /\ Len(Questions) = k
        /\ SessionOver =>
              /\ Len(Reports) = 1
              /\ Cardinality(CompleteAt("SCORE")) = 1
              /\ Reports[1].arg = Len(SendsOf({"RIGHT"}))
              /\ closes = 1

\* C6: when the line read at the start gate is anything but "Y", nothing is
\* sent after the preamble and the connection is closed.
C6_NothingSentUnlessY ==
    (gate # NoRead /\ ~Started) =>
        /\ log = <<PreambleItem>>
        /\ pc = "accept"
        /\ closes = 1

\* the token "start" was read at the gate
C6_Witness ==
    /\ gate.ret > 0
    /\ gate.buffer = TokStart
    /\ pc = "accept"

\* "Y" was read and each of the 5 questions got its canonical answer
AllCanonical ==
    /\ Started
    /\ Len(answers) = QuizLen
    /\ \A k \in 1..QuizLen :
          /\ answers[k].ret >= 0
          /\ k <= Len(Questions)
          /\ answers[k].buffer = QuizA(Questions[k].arg)

InQuiz == pc \in {"ask", "answer", "report"}

\* the selection holds 5 distinct indices of the pool; every question sent
\* and every feedback given so far used the record at its selected index
SelectionUsed ==
    InQuiz =>
        /\ Len(selected) = QuizLen
        /\ \A j \in 1..Len(selected) : selected[j] \in 0..(num_questions - 1)
        /\ \A j, k \in 1..Len(selected) : j # k => selected[j] # selected[k]
        /\ \A k \in 1..Len(Questions) : Questions[k].arg = selected[k]
        /\ \A k \in 1..Len(Feedbacks) :
              /\ (Feedbacks[k].kind = "RIGHT") <=>
                     (answers[k].buffer = QuizA(selected[k]))
              /\ (Feedbacks[k].kind = "WRONG") => Feedbacks[k].arg = selected[k]

\* C8: the indices selected for a session are 5 pairwise distinct values in
\* [0, poolSize), they do not change until the session ends, and question k
\* is taken from, and graded against, the record at the k-th selected index.
C8_SelectionDistinctStable ==
    /\ []SelectionUsed
    /\ [][(InQuiz /\ InQuiz') => selected' = selected]_vars

\* all five questions were asked and graded from a selection that is not
\* the identity
C8_Witness ==
    /\ pc = "report"
    /\ Len(Feedbacks) = QuizLen
    /\ selected[1] # 0

\* C9: with a pool smaller than the 5 indices requested the selection does
\* not loop forever: the server is never in the draw loop with every index
\* of the pool already taken and fewer than 5 collected.
C9_NoEndlessDraw ==
    ~(pc = "select" /\ num_questions < QuizLen /\ Len(selected) = num_questions)

\* C10: an I/O failure on a connection, a send to a connection the peer has
\* closed included, never terminates the server process.
C10_ServerSurvives == pc # "killed"

\* C14: at most one session is active at a time: a connection is accepted
\* only when no earlier connection is still open; and each session starts
\* from fresh state: an empty selection at the start of the draws, score 0
\* and cursor 0 at the first question, so that score and cursor count this
\* session's feedbacks only.
C14_OneSessionFreshState ==
    /\ [](InSession => closes = 0)
    /\ [][sessions' # sessions =>
             (pc = "accept" /\ (sessions = 0 \/ closes = 1))]_vars
    /\ [][(pc = "gate" /\ pc' = "select") => selected' = <<>>]_vars
    /\ [][(pc = "select" /\ pc' = "ask") => (score' = 0 /\ i' = 0)]_vars
    /\ [](InQuiz => (score = Len(SendsOf({"RIGHT"})) /\ i = Len(Feedbacks)))

\* a second session has started its draws while the memory of its locals
\* still holds the score the first session ended with
C14_Witness ==
    /\ sessions = 2
    /\ pc = "select"
    /\ selected = <<>>
    /\ score > 0
\* the texts sent after the preamble, in order
Messages == SendsOf({"Q", "RIGHT", "WRONG", "SCORE"})

\* C15: after the preamble the messages of a session go Q0, F0, Q1, F1, ...,
\* then at most one score report, which is the last message; a feedback is
\* sent only for a question already sent whose answer was received; and the
\* score reported is the number of "Right Answer." feedbacks sent.
C15_MessageOrder ==
    /\ \A j \in 1..Len(Messages) :
          /\ Messages[j].kind = "SCORE" => j = Len(Messages)
          /\ Messages[j].kind = "Q" => j % 2 = 1
          /\ Messages[j].kind \in {"RIGHT", "WRONG"} => j % 2 = 0
    /\ Len(Questions) <= QuizLen
    /\ \A k \in 1..Len(Feedbacks) :
          /\ k <= Len(Questions)
          /\ k <= Len(answers)
          /\ answers[k].ret >= 0
    /\ \A j \in 1..Len(Reports) : Reports[j].arg = Len(SendsOf({"RIGHT"}))

\* a whole session: five questions, five feedbacks of both kinds, the report
C15_Witness ==
    /\ pc = "accept"
    /\ Len(Messages) = 2 * QuizLen + 1
    /\ Len(Reports) = 1
    /\ Reports[1].arg \in 1..(QuizLen - 1)
\* C16: with a peer that sends or disconnects at every blocking read, a
\* pool of 5 questions or more and fair draws, every accepted session ends
\* and the server is back at accept.
C16_SessionEnds == InSession ~> (pc = "accept")
(* ------------------- claims on the client driver ----------------------- *)

\* the lines the client displayed in a role, in order
Displayed(role) == SelectSeq(shown, LAMBDA e : e.role = role /\ e.ret > 0)

\* the lines displayed as questions among the first n reads
QuestionsSeen(n) ==
    Cardinality({j \in 1..n : shown[j].role = "Q" /\ shown[j].ret > 0})

\* C17: the client sends its response only after its receive of the preamble
\* returned data; it sends at most 5 answers, the k-th only after k lines
\* were received as questions; it sends nothing after a failed receive,
\* which is followed by the read of the score line only; it sends nothing
\* after "q"; and its connection is released exactly once, when it ends.
C17_ClientOrder ==
    /\ csent # <<>> => cpos > 0
    /\ Len(csent) <= QuizLen + 1
    /\ \A k \in 2..Len(csent) : QuestionsSeen(csent[k].seen) >= k - 1
    /\ \A k \in 1..Len(csent) : \A j \in 1..csent[k].seen : shown[j].ret >= 0
    /\ \A j \in 1..Len(shown) :
          (shown[j].ret < 0 /\ j < Len(shown)) =>
              (j + 1 = Len(shown) /\ shown[j + 1].role = "S")
    /\ (csent # <<>> /\ csent[1].text = TokQ) => Len(csent) = 1
    /\ ccloses <= 1
    /\ (ccloses = 1) <=> (cpc \in {"done", "killed"})

\* the client ran a whole quiz: a response, five answers, the score line
C17_Witness ==
    /\ cpc = "done"
    /\ Len(csent) = QuizLen + 1
    /\ shown[Len(shown)].role = "S"
    /\ shown[Len(shown)].ret > 0

\* both ends are open, nothing is in flight either way, and each side is in
\* a receive that waits for the other
BothWait ==
    /\ closes = 0
    /\ ccloses = 0
    /\ BlockedInRead
    /\ inbuf = <<>>
    /\ cpc \in {"preamble", "question", "feedback", "score"}
    /\ CStream = <<>>

\* C18: the client and the server never wait for each other: no state has
\* both ends open, nothing in flight and both sides blocked in a receive.
C18_NoDeadlock == ~BothWait

\* C19: the k-th line the client displays as a question is the server's
\* k-th question, the k-th it displays as feedback is the server's k-th
\* feedback, and the line it displays as the score is the score report.
C19_RolesAligned ==
    /\ \A k \in 1..Len(Displayed("Q")) :
          k <= Len(Questions) /\ Displayed("Q")[k].text = Text(Questions[k])
    /\ \A k \in 1..Len(Displayed("F")) :
          k <= Len(Feedbacks) /\ Displayed("F")[k].text = Text(Feedbacks[k])
    /\ \A k \in 1..Len(Displayed("S")) :
          k <= Len(Reports) /\ Displayed("S")[k].text = Text(Reports[k])

(* ----------------------- claims on the line framer --------------------- *)

\* both send() calls of the message wrote all their bytes
Full(m) == m.n1 = Len(m.text) /\ m.n2 = 1

\* the stream s begins with p
IsPrefix(p, s) == Len(p) <= Len(s) /\ SubSeq(s, 1, Len(p)) = p

\* what follows the first n elements of s
Drop(s, n) == SubSeq(s, n + 1, Len(s))

\* the read found the line of the message, newline included, at the head of
\* the stream
ReadsMessage(r, m) == Full(m) /\ IsPrefix(m.text \o <<NL>>, r.pre)

\* C11: send_message writes the text followed by exactly one newline, and a
\* short or failed write of either part is reported to the caller as a
\* failure.
C11_SendFailureReported ==
    \A k \in 1..Len(fmsgs) :
        /\ Full(fmsgs[k]) => fmsgs[k].put = fmsgs[k].text \o <<NL>>
        /\ ~Full(fmsgs[k]) => fmsgs[k].returned = "failure"

\* C12 as stated: a text with no newline and shorter than max_len, written
\* by send_message and then read by read_line, comes back whole, and nothing
\* of the message is left in the stream.
C12_RoundTripBelowMaxLen ==
    \A j \in 1..Len(freads), k \in 1..Len(fmsgs) :
        (ReadsMessage(freads[j], fmsgs[k]) /\ Len(fmsgs[k].text) < fmax) =>
            /\ freads[j].ret = Len(fmsgs[k].text)
            /\ freads[j].buffer = fmsgs[k].text
            /\ freads[j].rest = Drop(freads[j].pre, Len(fmsgs[k].text) + 1)

\* C12 amended: the text comes back whole for every length below max_len;
\* nothing of the message is left in the stream when the text is shorter
\* than max_len - 1, and its newline, alone, is left when the text is
\* max_len - 1 bytes long.
C12_RoundTrip ==
    \A j \in 1..Len(freads), k \in 1..Len(fmsgs) :
        (ReadsMessage(freads[j], fmsgs[k]) /\ Len(fmsgs[k].text) < fmax) =>
            /\ freads[j].ret = Len(fmsgs[k].text)
            /\ freads[j].buffer = fmsgs[k].text
            /\ freads[j].rest =
                  Drop(freads[j].pre,
                       IF Len(fmsgs[k].text) < fmax - 1
                       THEN Len(fmsgs[k].text) + 1
                       ELSE Len(fmsgs[k].text))

\* a text of one byte or more, shorter than max_len - 1, was written and
\* read back, and the stream is empty again
C12_Witness ==
    \E j \in 1..Len(freads), k \in 1..Len(fmsgs) :
        /\ ReadsMessage(freads[j], fmsgs[k])
        /\ Len(fmsgs[k].text) \in 1..(fmax - 2)
        /\ freads[j].buffer = fmsgs[k].text
        /\ freads[j].rest = <<>>

\* the first n bytes of s are there and none is a newline
NoNewlineIn(s, n) == Len(s) >= n /\ \A j \in 1..n : s[j] # NL

\* C13: when the stream holds max_len - 1 bytes with no newline among them,
\* read_line consumes exactly those, returns them with length max_len - 1,
\* not an error; and no text read_line returns holds a newline.
C13_Truncation ==
    \A j \in 1..Len(freads) :
        /\ NoNewlineIn(freads[j].pre, fmax - 1) =>
              /\ freads[j].ret = fmax - 1
              /\ freads[j].buffer = SubSeq(freads[j].pre, 1, fmax - 1)
              /\ freads[j].rest = Drop(freads[j].pre, fmax - 1)
        /\ freads[j].ret >= 0 =>
              \A n \in 1..Len(freads[j].buffer) : freads[j].buffer[n] # NL

\* a line longer than max_len - 1 was cut: bytes of it follow in the stream
C13_Witness ==
    \E j \in 1..Len(freads) :
        /\ freads[j].ret = fmax - 1
        /\ freads[j].rest # <<>>
        /\ freads[j].rest[1] # NL

\* C20: a successful read_line consumes its text and, unless the text filled
\* the buffer, the newline after it, and nothing more; what it leaves is
\* what the next call starts from; so a line of max_len - 1 bytes or more
\* (255 or more for the server's buffer) is not consumed by one call.
C20_ConsumesNoMore ==
    /\ \A j \in 1..Len(freads) :
          freads[j].ret >= 0 =>
              freads[j].pre =
                  freads[j].buffer
                  \o (IF Len(freads[j].buffer) < fmax - 1 THEN <<NL>> ELSE <<>>)
                  \o freads[j].rest
    /\ \A j \in 1..(Len(freads) - 1) :
          IsPrefix(freads[j].rest, freads[j + 1].pre)
    /\ \A j \in 1..Len(freads), k \in 1..Len(fmsgs) :
          (ReadsMessage(freads[j], fmsgs[k]) /\ Len(fmsgs[k].text) >= fmax - 1) =>
              /\ freads[j].ret = fmax - 1
              /\ freads[j].rest = Drop(freads[j].pre, fmax - 1)
              /\ Len(freads[j].rest) > Len(freads[j].pre) - Len(fmsgs[k].text) - 1

\* a line was cut by one call and its remainder returned by the next
C20_Witness ==
    /\ Len(freads) >= 2
    /\ Len(fmsgs) >= 1
    /\ ReadsMessage(freads[1], fmsgs[1])
    /\ Len(fmsgs[1].text) > fmax - 1
    /\ freads[2].pre = freads[1].rest
    /\ freads[2].ret >= 1
    /\ freads[1].buffer \o freads[2].buffer = fmsgs[1].text

FramerTypeOK ==
    /\ fmax \in MaxLens
    /\ weof \in BOOLEAN
    /\ Len(fmsgs) <= MaxMsgs
    /\ Len(freads) <= MaxReads

=============================================================================
